---- MODULE Spec2Model ----
(***************************************************************************)
(* Model of src/lib/ecosystems.ts: ecosystem selection, the scan loop of   *)
(* testEcosystem / monitorEcosystem, the submission loops of               *)
(* testDependencies / monitorDependencies and getFormattedMonitorOutput.   *)
(*                                                                         *)
(* One behaviour is one call of one exported function.  Every await of the *)
(* source is a pair of steps: the call is issued (it joins inflight) and   *)
(* later resolves or rejects.  plugin.scan and makeRequest may reject; the *)
(* collaborators for which the source has no failure path (spinner,        *)
(* plugin.display, getExtraProjectCount, formatMonitorOutput) return.      *)
(***************************************************************************)
EXTENDS Integers, Sequences, FiniteSets, TLC

VARIABLES
    op,                 \* the exported function this behaviour runs
    pc,                 \* position inside it
    ecosystem,          \* argument `ecosystem`
    paths,              \* argument `paths`
    options,            \* argument `options` (mutated: options.path)
    configProjectName,  \* config.PROJECT_NAME
    scanResultsByPath,  \* the object built by the scan loop, in insertion order
    i,                  \* position in `paths` (or in `monitorResults`)
    e,                  \* position in Object.entries(scans)
    j,                  \* position in the scanResults of the current entry
    results,            \* local `results` (parameter `results` of the formatter)
    errors,             \* local `errors`  (parameter `errors` of the formatter)
    monitorResults,     \* parameter `monitorResults` of the formatter
    error,              \* the error caught by the last catch block
    calls,              \* every call issued to a plugin or to the remote API
    inflight,           \* indices in `calls` of the calls not yet settled
    spinnerLog,         \* calls made to the spinner module, in order
    filterLog,          \* ids of the scan results whose facts were filtered, in order
    baseResults,        \* the formatter's `results` argument as it was passed in
    outcome             \* how the function ended: returned value or raised error

vars == <<op, pc, ecosystem, paths, options, configProjectName,
          scanResultsByPath, i, e, j, results, errors, monitorResults,
          error, calls, inflight, spinnerLog, filterLog, baseResults,
          outcome>>

(***************************************************************************)
(* Bounds and input domains.                                               *)
(***************************************************************************)
MaxPaths == 2

MaxEntries == 2

Undefined == "undefined"

\* "1" and "2" are array-index keys of a JavaScript object, "a" is not.
PathNames == {"1", "2", "a"}

FormatterPaths == {"1", "a"}

OsReleaseFact == "imageOsReleasePrettyName"

\* The facts of the scan results of one plugin response, by fact type.
ScanShapes ==
    { <<>>,
      << <<"depGraph">> >>,
      << <<"imageId", OsReleaseFact, "depGraph">>, <<OsReleaseFact>> >> }

\* error.code / error.message of a rejected request; 0 stands for an error
\* without a numeric code (a network failure).
RemoteErrors ==
    { [code |-> 399, message |-> "redirect"],
      [code |-> 400, message |-> Undefined],
      [code |-> 499, message |-> "closed"],
      [code |-> 500, message |-> "server error"],
      [code |-> 0, message |-> "ECONNRESET"] }

SeqsUpTo(S, n) == UNION { [1..k -> S] : k \in 0..n }

Last(s) == s[Len(s)]

(***************************************************************************)
(* JavaScript semantics the functions rely on.                             *)
(***************************************************************************)
\* The numeric value of an array-index key, 0 for any other key.
ArrayIndex(k) == CASE k = "1" -> 1 [] k = "2" -> 2 [] OTHER -> 0

IsArrayIndex(k) == ArrayIndex(k) > 0

HasKey(obj, k) == \E n \in 1..Len(obj) : obj[n].key = k

\* obj[k] = v: an existing key keeps its place, a new key is added last.
ObjectSet(obj, k, v) ==
    IF HasKey(obj, k)
    THEN [n \in 1..Len(obj) |->
            IF obj[n].key = k THEN [key |-> k, value |-> v] ELSE obj[n]]
    ELSE Append(obj, [key |-> k, value |-> v])

RECURSIVE InsertByIndex(_, _)
InsertByIndex(sorted, en) ==
    IF sorted = <<>> THEN <<en>>
    ELSE IF ArrayIndex(en.key) < ArrayIndex(Head(sorted).key)
         THEN <<en>> \o sorted
         ELSE <<Head(sorted)>> \o InsertByIndex(Tail(sorted), en)

RECURSIVE SortByIndex(_)
SortByIndex(s) ==
    IF s = <<>> THEN <<>>
    ELSE InsertByIndex(SortByIndex(SubSeq(s, 1, Len(s) - 1)), Last(s))

\* Object.entries(obj): array-index keys in ascending numeric order, then the
\* other keys in insertion order.
ObjectEntries(obj) ==
    SortByIndex(SelectSeq(obj, LAMBDA en : IsArrayIndex(en.key)))
        \o SelectSeq(obj, LAMBDA en : ~IsArrayIndex(en.key))

RECURSIVE Concat(_)
Concat(ss) == IF ss = <<>> THEN <<>> ELSE Head(ss) \o Concat(Tail(ss))

\* Object.values(obj)
ObjectValues(obj) ==
    [n \in 1..Len(ObjectEntries(obj)) |-> ObjectEntries(obj)[n].value]

\* new Error(m).message: an undefined message becomes the empty string.
ErrorMessage(m) == IF m = Undefined THEN "" ELSE m

\* a || b || undefined
OrElse(a, b) == IF a # Undefined THEN a ELSE b

(***************************************************************************)
(* What the external collaborators hand back.                              *)
(***************************************************************************)
\* The scan results of the n-th plugin.scan call: fresh objects, identified
\* by the call and their position in the response.
PluginResponse(n, plugin, shape) ==
    [k \in 1..Len(shape) |->
        [id |-> <<n, k>>,
         identity |-> [type |-> plugin],
         facts |-> [f \in 1..Len(shape[k]) |->
                        [type |-> shape[k][f], data |-> f]]]]

\* The body the remote API answers the n-th call with.  The monitor response
\* carries a `path` field of its own.
RemoteResponse(n) == [id |-> n, path |-> "server"]

NoOutcome == [kind |-> "none"]

Returned(v) == [kind |-> "returned", value |-> v]

Thrown(m) == [kind |-> "thrown", message |-> m]

NoError == [code |-> 0, message |-> Undefined]

(***************************************************************************)
(* getEcosystem                                                            *)
(***************************************************************************)
\* Variant: the container test comes first.
getEcosystemContainerFirst(o) ==
    IF o.container /\ ~o.isDockerUser THEN "docker"
    ELSE IF o.source THEN "cpp"
    ELSE "null"

getEcosystem(o) ==
    IF o.source THEN "cpp"
    ELSE IF o.container /\ ~o.isDockerUser THEN "docker"
    ELSE "null"

GetEcosystem ==
    /\ op = "getEcosystem" /\ pc = "start"
    /\ outcome' = Returned(getEcosystem(options))
    /\ pc' = "done"
    /\ UNCHANGED <<filterLog, baseResults, op, ecosystem, paths, options, configProjectName,
                   scanResultsByPath, i, e, j, results, errors,
                   monitorResults, error, calls, inflight, spinnerLog>>

getPlugin(eco) == eco


(***************************************************************************)
(* Shared shapes of the log entries.                                       *)
(***************************************************************************)
ScanCall(plugin, path, o) ==
    [kind |-> "scan", plugin |-> plugin, path |-> path,
     optionsPath |-> o.path, body |-> <<>>, status |-> "pending",
     response |-> <<>>]

RequestCall(kind, path, body) ==
    [kind |-> kind, plugin |-> "remote", path |-> path,
     optionsPath |-> Undefined, body |-> body, status |-> "pending",
     response |-> <<>>]

DisplayCall(plugin, o, body) ==
    [kind |-> "display", plugin |-> plugin, path |-> Undefined,
     optionsPath |-> o.path, body |-> body, status |-> "pending",
     response |-> <<>>]

Settle(log, n, st) == [log EXCEPT ![n].status = st]

\* A resolved plugin.scan, with the scan results it handed back.
SettleScan(log, n, response) ==
    [log EXCEPT ![n].status = "resolved", ![n].response = response]

\* The call the function is suspended on.
Awaited == CHOOSE n \in inflight : TRUE

SpinnerStart(text, path) == [call |-> "spinner", label |-> <<text, path>>]

SpinnerClearAll == [call |-> "clearAll", label |-> <<>>]

\* Variant: 400 itself is not taken for a client error.
IsClientErrorAbove400(err) == err.code > 400 /\ err.code < 500

\* error.code >= 400 && error.code < 500
IsClientError(err) == err.code >= 400 /\ err.code < 500

Entries == ObjectEntries(scanResultsByPath)

(***************************************************************************)
(* testEcosystem: the scan loop.                                           *)
(***************************************************************************)
\* Variant: options.path is left as it was.
TestScanCallStalePath ==
    /\ op = "testEcosystem" /\ pc \in {"start", "scan_loop"}
    /\ i <= Len(paths)
    /\ calls' = Append(calls, ScanCall(getPlugin(ecosystem), paths[i], options))
    /\ inflight' = inflight \cup {Len(calls) + 1}
    /\ pc' = "scan_await"
    /\ UNCHANGED <<filterLog, baseResults, op, ecosystem, paths, options,
                   configProjectName, scanResultsByPath, i, e, j, results,
                   errors, monitorResults, error, spinnerLog, outcome>>

TestScanCall ==
    /\ op = "testEcosystem" /\ pc \in {"start", "scan_loop"}
    /\ i <= Len(paths)
    /\ options' = [options EXCEPT !.path = paths[i]]
    /\ calls' = Append(calls, ScanCall(getPlugin(ecosystem), paths[i], options'))
    /\ inflight' = inflight \cup {Len(calls) + 1}
    /\ pc' = "scan_await"
    /\ UNCHANGED <<filterLog, baseResults, op, ecosystem, paths, configProjectName, scanResultsByPath,
                   i, e, j, results, errors, monitorResults, error,
                   spinnerLog, outcome>>

TestScanResolves ==
    /\ op = "testEcosystem" /\ pc = "scan_await"
    /\ \E shape \in ScanShapes :
          LET pluginResponse ==
                  PluginResponse(Awaited, getPlugin(ecosystem), shape)
          IN  /\ scanResultsByPath' =
                     ObjectSet(scanResultsByPath, paths[i], pluginResponse)
              /\ calls' = SettleScan(calls, Awaited, pluginResponse)
    /\ inflight' = inflight \ {Awaited}
    /\ i' = i + 1
    /\ pc' = "scan_loop"
    /\ UNCHANGED <<filterLog, baseResults, op, ecosystem, paths, options, configProjectName, e, j,
                   results, errors, monitorResults, error, spinnerLog,
                   outcome>>

\* A rejected plugin.scan is not caught: testEcosystem rejects with it.
TestScanRejects ==
    /\ op = "testEcosystem" /\ pc = "scan_await"
    /\ calls' = Settle(calls, Awaited, "rejected")
    /\ inflight' = inflight \ {Awaited}
    /\ outcome' = Thrown("scan failed")
    /\ pc' = "done"
    /\ UNCHANGED <<filterLog, baseResults, op, ecosystem, paths, options, configProjectName,
                   scanResultsByPath, i, e, j, results, errors,
                   monitorResults, error, spinnerLog>>

(***************************************************************************)
(* testDependencies                                                        *)
(***************************************************************************)
TestDependenciesStart ==
    /\ op = "testEcosystem" /\ pc \in {"start", "scan_loop"}
    /\ i > Len(paths)
    /\ results' = <<>> /\ errors' = <<>>
    /\ e' = 1
    /\ pc' = "path_loop"
    /\ UNCHANGED <<filterLog, baseResults, op, ecosystem, paths, options, configProjectName,
                   scanResultsByPath, i, j, monitorResults, error, calls,
                   inflight, spinnerLog, outcome>>

TestSpinner ==
    /\ op = "testEcosystem" /\ pc = "path_loop"
    /\ e <= Len(Entries)
    /\ spinnerLog' =
          Append(spinnerLog,
                 SpinnerStart("Testing dependencies in ", Entries[e].key))
    /\ j' = 1
    /\ pc' = "sr_loop"
    /\ UNCHANGED <<filterLog, baseResults, op, ecosystem, paths, options, configProjectName,
                   scanResultsByPath, i, e, results, errors, monitorResults,
                   error, calls, inflight, outcome>>

TestNextPath ==
    /\ op = "testEcosystem" /\ pc = "sr_loop"
    /\ j > Len(Entries[e].value)
    /\ e' = e + 1
    /\ pc' = "path_loop"
    /\ UNCHANGED <<filterLog, baseResults, op, ecosystem, paths, options, configProjectName,
                   scanResultsByPath, i, j, results, errors, monitorResults,
                   error, calls, inflight, spinnerLog, filterLog, baseResults,
          outcome>>

TestRequestCall ==
    /\ op = "testEcosystem" /\ pc = "sr_loop"
    /\ j <= Len(Entries[e].value)
    /\ calls' = Append(calls, RequestCall("test-dependencies", Entries[e].key,
                                          Entries[e].value[j]))
    /\ inflight' = inflight \cup {Len(calls) + 1}
    /\ error' = NoError
    /\ pc' = "req_await"
    /\ UNCHANGED <<filterLog, baseResults, op, ecosystem, paths, options, configProjectName,
                   scanResultsByPath, i, e, j, results, errors,
                   monitorResults, spinnerLog, outcome>>

\* Variant: the response is put in front of the earlier ones.
TestRequestResolvesUnshift ==
    /\ op = "testEcosystem" /\ pc = "req_await"
    /\ results' = <<RemoteResponse(Awaited)>> \o results
    /\ calls' = Settle(calls, Awaited, "resolved")
    /\ inflight' = inflight \ {Awaited}
    /\ j' = j + 1
    /\ pc' = "sr_loop"
    /\ UNCHANGED <<filterLog, baseResults, op, ecosystem, paths, options,
                   configProjectName, scanResultsByPath, i, e, errors,
                   monitorResults, error, spinnerLog, outcome>>

TestRequestResolves ==
    /\ op = "testEcosystem" /\ pc = "req_await"
    /\ results' = Append(results, RemoteResponse(Awaited))
    /\ calls' = Settle(calls, Awaited, "resolved")
    /\ inflight' = inflight \ {Awaited}
    /\ j' = j + 1
    /\ pc' = "sr_loop"
    /\ UNCHANGED <<filterLog, baseResults, op, ecosystem, paths, options, configProjectName,
                   scanResultsByPath, i, e, errors, monitorResults, error,
                   spinnerLog, outcome>>

TestErrorEntry(path) == <<"Could not test dependencies in ", path>>

TestRequestRejects ==
    /\ op = "testEcosystem" /\ pc = "req_await"
    /\ \E err \in RemoteErrors :
        /\ error' = err
        /\ IF IsClientError(err)
           THEN /\ outcome' = Thrown(ErrorMessage(err.message))
                /\ pc' = "done"
                /\ UNCHANGED <<errors, j>>
           ELSE /\ errors' = Append(errors, TestErrorEntry(Entries[e].key))
                /\ j' = j + 1
                /\ pc' = "sr_loop"
                /\ UNCHANGED outcome
    /\ calls' = Settle(calls, Awaited, "rejected")
    /\ inflight' = inflight \ {Awaited}
    /\ UNCHANGED <<filterLog, baseResults, op, ecosystem, paths, options, configProjectName,
                   scanResultsByPath, i, e, results, monitorResults,
                   spinnerLog>>

TestDependenciesReturn ==
    /\ op = "testEcosystem" /\ pc = "path_loop"
    /\ e > Len(Entries)
    /\ spinnerLog' = Append(spinnerLog, SpinnerClearAll)
    /\ pc' = "tested"
    /\ UNCHANGED <<filterLog, baseResults, op, ecosystem, paths, options, configProjectName,
                   scanResultsByPath, i, e, j, results, errors,
                   monitorResults, error, calls, inflight, outcome>>

(***************************************************************************)
(* testEcosystem: the result.                                              *)
(***************************************************************************)
\* JSON.stringify(testResults, null, 2)
Stringify(testResults) == <<"JSON", testResults>>

TestReturnJson ==
    /\ op = "testEcosystem" /\ pc = "tested"
    /\ options.json
    /\ outcome' = Returned([json |-> Stringify(results)])
    /\ pc' = "done"
    /\ UNCHANGED <<filterLog, baseResults, op, ecosystem, paths, options, configProjectName,
                   scanResultsByPath, i, e, j, results, errors,
                   monitorResults, error, calls, inflight, spinnerLog>>

TestDisplayCall ==
    /\ op = "testEcosystem" /\ pc = "tested"
    /\ ~options.json
    /\ calls' = Append(calls,
          DisplayCall(getPlugin(ecosystem), options,
                      [scanResults |-> Concat(ObjectValues(scanResultsByPath)),
                       testResults |-> results,
                       errors |-> errors]))
    /\ inflight' = inflight \cup {Len(calls) + 1}
    /\ pc' = "display_await"
    /\ UNCHANGED <<filterLog, baseResults, op, ecosystem, paths, options, configProjectName,
                   scanResultsByPath, i, e, j, results, errors,
                   monitorResults, error, spinnerLog, outcome>>

TestDisplayResolves ==
    /\ op = "testEcosystem" /\ pc = "display_await"
    /\ outcome' = Returned([readable |-> <<"display", Awaited>>,
                            json |-> Stringify(results)])
    /\ calls' = Settle(calls, Awaited, "resolved")
    /\ inflight' = inflight \ {Awaited}
    /\ pc' = "done"
    /\ UNCHANGED <<filterLog, baseResults, op, ecosystem, paths, options, configProjectName,
                   scanResultsByPath, i, e, j, results, errors,
                   monitorResults, error, spinnerLog>>

TestEcosystem ==
    \/ TestScanCall \/ TestScanResolves \/ TestScanRejects
    \/ TestDependenciesStart \/ TestSpinner \/ TestNextPath
    \/ TestRequestCall \/ TestRequestResolves \/ TestRequestRejects
    \/ TestDependenciesReturn
    \/ TestReturnJson \/ TestDisplayCall \/ TestDisplayResolves

(***************************************************************************)
(* monitorEcosystem: the scan loop.                                        *)
(***************************************************************************)
MonitorScanCall ==
    /\ op = "monitorEcosystem" /\ pc \in {"start", "scan_loop"}
    /\ i <= Len(paths)
    /\ spinnerLog' =
          Append(spinnerLog, SpinnerStart("Analyzing dependencies in ", paths[i]))
    /\ options' = [options EXCEPT !.path = paths[i]]
    /\ calls' = Append(calls, ScanCall(getPlugin(ecosystem), paths[i], options'))
    /\ inflight' = inflight \cup {Len(calls) + 1}
    /\ pc' = "scan_await"
    /\ UNCHANGED <<filterLog, baseResults, op, ecosystem, paths,
                   configProjectName, scanResultsByPath, i, e, j, results,
                   errors, monitorResults, error, outcome>>

MonitorScanResolves ==
    /\ op = "monitorEcosystem" /\ pc = "scan_await"
    /\ \E shape \in ScanShapes :
          LET pluginResponse ==
                  PluginResponse(Awaited, getPlugin(ecosystem), shape)
          IN  /\ scanResultsByPath' =
                     ObjectSet(scanResultsByPath, paths[i], pluginResponse)
              /\ calls' = SettleScan(calls, Awaited, pluginResponse)
    /\ inflight' = inflight \ {Awaited}
    /\ i' = i + 1
    /\ pc' = "scan_loop"
    /\ UNCHANGED <<filterLog, baseResults, op, ecosystem, paths, options,
                   configProjectName, e, j, results, errors, monitorResults,
                   error, spinnerLog, outcome>>

\* Variant: a rejected plugin.scan is swallowed and the loop goes on.
MonitorScanRejectsSwallowed ==
    /\ op = "monitorEcosystem" /\ pc = "scan_await"
    /\ calls' = Settle(calls, Awaited, "rejected")
    /\ inflight' = inflight \ {Awaited}
    /\ i' = i + 1
    /\ pc' = "scan_loop"
    /\ UNCHANGED <<filterLog, baseResults, op, ecosystem, paths, options,
                   configProjectName, scanResultsByPath, e, j, results,
                   errors, monitorResults, error, spinnerLog, outcome>>

\* A rejected plugin.scan is not caught: monitorEcosystem rejects with it.
MonitorScanRejects ==
    /\ op = "monitorEcosystem" /\ pc = "scan_await"
    /\ calls' = Settle(calls, Awaited, "rejected")
    /\ inflight' = inflight \ {Awaited}
    /\ outcome' = Thrown("scan failed")
    /\ pc' = "done"
    /\ UNCHANGED <<filterLog, baseResults, op, ecosystem, paths, options,
                   configProjectName, scanResultsByPath, i, e, j, results,
                   errors, monitorResults, error, spinnerLog>>

(***************************************************************************)
(* monitorDependencies                                                     *)
(***************************************************************************)
generateMonitorDependenciesRequest(scanResult, o) ==
    [scanResult |-> scanResult,
     method |-> "cli",
     projectName |-> OrElse(OrElse(o.projectName, configProjectName), Undefined)]

\* Variant: no fact is removed.
FilterFactsKeepAll(facts) == facts

\* facts.filter((fact) => fact.type !== 'imageOsReleasePrettyName')
FilterFacts(facts) == SelectSeq(facts, LAMBDA fact : fact.type # OsReleaseFact)

\* scanResult.facts = facts, on the scan result object held under key k.
SetFacts(obj, k, n, facts) ==
    [m \in 1..Len(obj) |->
        IF obj[m].key = k
        THEN [obj[m] EXCEPT !.value[n].facts = facts]
        ELSE obj[m]]

\* Variant: { path, scanResult, ...response }, the response's path wins.
MonitorResultEntryResponseLast(response, path, scanResult) ==
    [id |-> response.id, path |-> response.path, scanResult |-> scanResult]

\* { ...response, path, scanResult }
MonitorResultEntry(response, path, scanResult) ==
    [id |-> response.id, path |-> path, scanResult |-> scanResult]

MonitorErrorEntry(path, scanResult) ==
    [error |-> <<"Could not monitor dependencies in ", path>>,
     path |-> path, scanResult |-> scanResult]

MonitorDependenciesStart ==
    /\ op = "monitorEcosystem" /\ pc \in {"start", "scan_loop"}
    /\ i > Len(paths)
    /\ results' = <<>> /\ errors' = <<>>
    /\ e' = 1
    /\ pc' = "path_loop"
    /\ UNCHANGED <<filterLog, baseResults, op, ecosystem, paths, options,
                   configProjectName, scanResultsByPath, i, j, monitorResults,
                   error, calls, inflight, spinnerLog, outcome>>

MonitorSpinner ==
    /\ op = "monitorEcosystem" /\ pc = "path_loop"
    /\ e <= Len(Entries)
    /\ spinnerLog' =
          Append(spinnerLog,
                 SpinnerStart("Monitoring dependencies in ", Entries[e].key))
    /\ j' = 1
    /\ pc' = "sr_loop"
    /\ UNCHANGED <<filterLog, baseResults, op, ecosystem, paths, options,
                   configProjectName, scanResultsByPath, i, e, results, errors,
                   monitorResults, error, calls, inflight, outcome>>

MonitorNextPath ==
    /\ op = "monitorEcosystem" /\ pc = "sr_loop"
    /\ j > Len(Entries[e].value)
    /\ e' = e + 1
    /\ pc' = "path_loop"
    /\ UNCHANGED <<filterLog, baseResults, op, ecosystem, paths, options,
                   configProjectName, scanResultsByPath, i, j, results, errors,
                   monitorResults, error, calls, inflight, spinnerLog, outcome>>

MonitorRequestCall ==
    /\ op = "monitorEcosystem" /\ pc = "sr_loop"
    /\ j <= Len(Entries[e].value)
    /\ LET path == Entries[e].key
           scanResult == Entries[e].value[j]
           request == generateMonitorDependenciesRequest(scanResult, options)
           facts == FilterFacts(request.scanResult.facts)
       IN  /\ scanResultsByPath' = SetFacts(scanResultsByPath, path, j, facts)
           /\ filterLog' = Append(filterLog, scanResult.id)
           /\ calls' = Append(calls,
                 RequestCall("monitor-dependencies", path,
                             [request EXCEPT !.scanResult.facts = facts]))
    /\ inflight' = inflight \cup {Len(calls) + 1}
    /\ error' = NoError
    /\ pc' = "req_await"
    /\ UNCHANGED <<baseResults, op, ecosystem, paths, options,
                   configProjectName, i, e, j, results, errors,
                   monitorResults, spinnerLog, outcome>>

MonitorRequestResolves ==
    /\ op = "monitorEcosystem" /\ pc = "req_await"
    /\ results' = Append(results,
          MonitorResultEntry(RemoteResponse(Awaited), Entries[e].key,
                             Entries[e].value[j]))
    /\ calls' = Settle(calls, Awaited, "resolved")
    /\ inflight' = inflight \ {Awaited}
    /\ j' = j + 1
    /\ pc' = "sr_loop"
    /\ UNCHANGED <<filterLog, baseResults, op, ecosystem, paths, options,
                   configProjectName, scanResultsByPath, i, e, errors,
                   monitorResults, error, spinnerLog, outcome>>

MonitorRequestRejects ==
    /\ op = "monitorEcosystem" /\ pc = "req_await"
    /\ \E err \in RemoteErrors :
        /\ error' = err
        /\ IF IsClientError(err)
           THEN /\ outcome' = Thrown(ErrorMessage(err.message))
                /\ pc' = "done"
                /\ UNCHANGED <<errors, j>>
           ELSE /\ errors' = Append(errors,
                      MonitorErrorEntry(Entries[e].key, Entries[e].value[j]))
                /\ j' = j + 1
                /\ pc' = "sr_loop"
                /\ UNCHANGED outcome
    /\ calls' = Settle(calls, Awaited, "rejected")
    /\ inflight' = inflight \ {Awaited}
    /\ UNCHANGED <<filterLog, baseResults, op, ecosystem, paths, options,
                   configProjectName, scanResultsByPath, i, e, results,
                   monitorResults, spinnerLog>>

\* monitorDependencies returns and monitorEcosystem hands the pair on.
MonitorDependenciesReturn ==
    /\ op = "monitorEcosystem" /\ pc = "path_loop"
    /\ e > Len(Entries)
    /\ spinnerLog' = Append(spinnerLog, SpinnerClearAll)
    /\ outcome' = Returned([results |-> results, errors |-> errors])
    /\ pc' = "done"
    /\ UNCHANGED <<filterLog, baseResults, op, ecosystem, paths, options,
                   configProjectName, scanResultsByPath, i, e, j, results,
                   errors, monitorResults, error, calls, inflight>>

MonitorEcosystem ==
    \/ MonitorScanCall \/ MonitorScanResolves \/ MonitorScanRejects
    \/ MonitorDependenciesStart \/ MonitorSpinner \/ MonitorNextPath
    \/ MonitorRequestCall \/ MonitorRequestResolves \/ MonitorRequestRejects
    \/ MonitorDependenciesReturn

(***************************************************************************)
(* getFormattedMonitorOutput.  A string is a sequence of styled pieces, a  *)
(* piece's text a sequence of literal parts; the empty text is falsy.      *)
(***************************************************************************)
SEPARATOR == "\n-------------------------------------------------------\n"

Piece(style, text) == [style |-> style, text |-> text]

\* `data` of a GoodResult is a string; of a BadResult an error (or nothing).
TextData(text) ==
    [defined |-> TRUE, text |-> text, userMessage |-> <<>>, message |-> <<>>]

ErrorData(userMessage, message) ==
    [defined |-> TRUE, text |-> <<>>, userMessage |-> userMessage,
     message |-> message]

NoData ==
    [defined |-> FALSE, text |-> <<>>, userMessage |-> <<>>, message |-> <<>>]

\* new MonitorError(500, monitorError): the wrapper carries the payload as
\* its user-facing message.
MonitorError(code, payload) ==
    ErrorData(<<"MonitorError", code, payload.path>>, payload.error)

\* formatMonitorOutput(...): an opaque rendering of its arguments.
formatMonitorOutput(type, res, projectName, extraCount) ==
    <<"formatMonitorOutput", type, res.id, res.path, projectName, extraCount>>

\* getExtraProjectCount(path, options, {}): an opaque count.
getExtraProjectCount(path) == "extra:" \o path

GoodEntry(monitorResult) ==
    [ok |-> TRUE,
     data |-> TextData(
        formatMonitorOutput(monitorResult.scanResult.identity.type,
                            monitorResult, monitorResult.projectName,
                            getExtraProjectCount(monitorResult.path))),
     path |-> monitorResult.path,
     projectName |-> monitorResult.id]

BadEntry(monitorError) ==
    [ok |-> FALSE,
     data |-> MonitorError("500", monitorError),
     path |-> monitorError.path,
     projectName |-> Undefined]

PathHeader(path) == Piece("bold.white", <<"\nMonitoring ", path, "...\n\n">>)

errorMessage(res) ==
    IF res.data.defined /\ res.data.userMessage # <<>>
    THEN Piece("bold.red", res.data.userMessage)
    ELSE IF res.data.defined
         THEN Piece("plain", res.data.message)
         ELSE Piece("plain", <<"Unknown error occurred.">>)

\* the callback of results.map(...)
RenderEntry(res) ==
    IF res.ok
    THEN <<Piece("plain", res.data.text)>>
    ELSE <<PathHeader(res.path), errorMessage(res)>>

RECURSIVE Join(_, _)
Join(strings, sep) ==
    IF strings = <<>> THEN <<>>
    ELSE IF Len(strings) = 1 THEN Head(strings)
    ELSE Head(strings) \o sep \o Join(Tail(strings), sep)

OutputString(res) ==
    Join([n \in 1..Len(res) |-> RenderEntry(res[n])],
         <<Piece("plain", <<"\n", SEPARATOR>>)>>)

\* Variant: results.some((res) => res.ok)
SomeOk(res) == \E n \in 1..Len(res) : res[n].ok

EveryOk(res) == \A n \in 1..Len(res) : res[n].ok

PushAll(res, errs) == res \o [n \in 1..Len(errs) |-> BadEntry(errs[n])]

\* One iteration of the loop over monitorResults (it awaits the count).
FormatMonitorResult ==
    /\ op = "getFormattedMonitorOutput" /\ pc \in {"start", "result_loop"}
    /\ i <= Len(monitorResults)
    /\ results' = Append(results, GoodEntry(monitorResults[i]))
    /\ i' = i + 1
    /\ pc' = "result_loop"
    /\ UNCHANGED <<filterLog, baseResults, op, ecosystem, paths, options,
                   configProjectName, scanResultsByPath, e, j, errors,
                   monitorResults, error, calls, inflight, spinnerLog, outcome>>

\* The loop over errors, the join and the verdict.
FormatFinish ==
    /\ op = "getFormattedMonitorOutput" /\ pc \in {"start", "result_loop"}
    /\ i > Len(monitorResults)
    /\ results' = PushAll(results, errors)
    /\ outcome' = IF EveryOk(results')
                  THEN Returned(OutputString(results'))
                  ELSE Thrown(OutputString(results'))
    /\ pc' = "done"
    /\ UNCHANGED <<filterLog, baseResults, op, ecosystem, paths, options,
                   configProjectName, scanResultsByPath, i, e, j, errors,
                   monitorResults, error, calls, inflight, spinnerLog>>

GetFormattedMonitorOutput == FormatMonitorResult \/ FormatFinish

\* Inputs of the formatter.
BaseEntries ==
    { [ok |-> TRUE, data |-> TextData(<<"base report">>), path |-> "a",
       projectName |-> "base"],
      [ok |-> FALSE, data |-> ErrorData(<<"user message">>, <<"message">>),
       path |-> "1", projectName |-> Undefined],
      [ok |-> FALSE, data |-> ErrorData(<<>>, <<"message">>),
       path |-> "a", projectName |-> Undefined],
      [ok |-> FALSE, data |-> NoData, path |-> "1",
       projectName |-> Undefined] }

FormatterResults ==
    { [id |-> "id-" \o p, path |-> p, projectName |-> "project-" \o p,
       scanResult |-> [identity |-> [type |-> "cpp"]]] : p \in FormatterPaths }

FormatterErrors ==
    { [error |-> <<"Could not monitor dependencies in ", p>>, path |-> p,
       scanResult |-> [identity |-> [type |-> "cpp"]]] : p \in FormatterPaths }

(***************************************************************************)
(* Initial states: one per exported function and input.                    *)
(***************************************************************************)
BaseOptions ==
    [source |-> FALSE, container |-> FALSE, isDockerUser |-> FALSE,
     json |-> FALSE, projectName |-> Undefined, path |-> Undefined]

InitCommon ==
    /\ pc = "start"
    /\ scanResultsByPath = <<>>
    /\ i = 1 /\ e = 1 /\ j = 1
    /\ error = NoError
    /\ calls = <<>>
    /\ inflight = {}
    /\ spinnerLog = <<>>
    /\ filterLog = <<>>
    /\ outcome = NoOutcome

InitGetEcosystem ==
    /\ op = "getEcosystem"
    /\ \E s, c, d \in BOOLEAN :
          options = [BaseOptions EXCEPT
                        !.source = s, !.container = c, !.isDockerUser = d]
    /\ ecosystem = "null" /\ paths = <<>> /\ configProjectName = Undefined
    /\ results = <<>> /\ errors = <<>> /\ monitorResults = <<>>
    /\ baseResults = <<>>

InitTestEcosystem ==
    /\ op = "testEcosystem"
    /\ ecosystem \in {"cpp", "docker"}
    /\ paths \in SeqsUpTo(PathNames, MaxPaths)
    /\ \E js \in BOOLEAN :
          options = [BaseOptions EXCEPT
                        !.source = (ecosystem = "cpp"),
                        !.container = (ecosystem = "docker"),
                        !.json = js]
    /\ configProjectName = Undefined
    /\ results = <<>> /\ errors = <<>> /\ monitorResults = <<>>
    /\ baseResults = <<>>

InitMonitorEcosystem ==
    /\ op = "monitorEcosystem"
    /\ ecosystem = "docker"
    /\ paths \in SeqsUpTo(PathNames, MaxPaths)
    /\ \E pn \in {Undefined, "option-name"} :
          options = [BaseOptions EXCEPT
                        !.source = (ecosystem = "cpp"),
                        !.container = (ecosystem = "docker"),
                        !.projectName = pn]
    /\ configProjectName \in {Undefined, "config-name"}
    /\ results = <<>> /\ errors = <<>> /\ monitorResults = <<>>
    /\ baseResults = <<>>

InitGetFormattedMonitorOutput ==
    /\ op = "getFormattedMonitorOutput"
    /\ ecosystem = "null" /\ paths = <<>> /\ configProjectName = Undefined
    /\ options = BaseOptions
    /\ baseResults \in SeqsUpTo(BaseEntries, MaxEntries)
    /\ results = baseResults
    /\ monitorResults \in SeqsUpTo(FormatterResults, MaxEntries)
    /\ errors \in SeqsUpTo(FormatterErrors, MaxEntries)

Init ==
    /\ InitCommon
    /\ \/ InitGetEcosystem
       \/ InitTestEcosystem
       \/ InitMonitorEcosystem
       \/ InitGetFormattedMonitorOutput

Next ==
    \/ GetEcosystem
    \/ TestEcosystem
    \/ MonitorEcosystem
    \/ GetFormattedMonitorOutput

Spec == Init /\ [][Next]_vars

(***************************************************************************)
(* Vocabulary of the properties.                                           *)
(***************************************************************************)
Orchestrating == op \in {"testEcosystem", "monitorEcosystem"}

RequestKinds == {"test-dependencies", "monitor-dependencies"}

CallIndices(P(_)) ==
    SelectSeq([n \in 1..Len(calls) |-> n], P)

IsScan(n) == calls[n].kind = "scan"

IsRequest(n) == calls[n].kind \in RequestKinds

ScanIndices == CallIndices(IsScan)

RequestIndices == CallIndices(IsRequest)

ResolvedRequests ==
    CallIndices(LAMBDA n : IsRequest(n) /\ calls[n].status = "resolved")

RejectedRequests ==
    CallIndices(LAMBDA n : IsRequest(n) /\ calls[n].status = "rejected")

\* The run ended on a request rejected with a code in [400,500).
FatalResponse ==
    /\ Orchestrating /\ pc = "done"
    /\ calls # <<>> /\ IsRequest(Len(calls))
    /\ Last(calls).status = "rejected"
    /\ error.code \in 400..499

\* Rejected requests other than the fatal one.
SoftRequests ==
    CallIndices(LAMBDA n : /\ IsRequest(n) /\ calls[n].status = "rejected"
                           /\ ~(FatalResponse /\ n = Len(calls)))

\* testDependencies / monitorDependencies has returned its pair.
DependenciesReturned ==
    \/ op = "testEcosystem" /\ pc \in {"tested", "display_await"}
    \/ Orchestrating /\ pc = "done" /\ outcome.kind = "returned"

RECURSIVE SumLen(_)
SumLen(ss) == IF ss = <<>> THEN 0 ELSE Len(Head(ss)) + SumLen(Tail(ss))

\* Number of (path, scanResult) pairs the submission loop walks.
PairCount == SumLen(ObjectValues(scanResultsByPath))

\* C8: getEcosystem is first-match-wins: source gives 'cpp' whatever
\* container and isDockerUser are; otherwise container without isDockerUser
\* gives 'docker'; otherwise the result is null, returned and not raised.
C8_FirstMatchWins ==
    (op = "getEcosystem" /\ pc = "done") =>
        /\ outcome.kind = "returned"
        /\ options.source => outcome.value = "cpp"
        /\ (~options.source /\ options.container /\ ~options.isDockerUser)
               => outcome.value = "docker"
        /\ (~options.source /\ ~(options.container /\ ~options.isDockerUser))
               => outcome.value = "null"

C8_Witness ==
    /\ op = "getEcosystem" /\ pc = "done"
    /\ options.source /\ options.container /\ ~options.isDockerUser
    /\ outcome.value = "cpp"

\* C1: a request rejected with a code in [400,500) ends testDependencies /
\* monitorDependencies at once: the step records no result and no error
\* entry and issues no call, the operation raises an error carrying the
\* server error's message instead of returning, and nothing happens after.
C1_ClientErrorAborts ==
    [][ /\ pc # "done"
        /\ ( /\ Orchestrating /\ pc = "req_await"
             /\ Len(RejectedRequests') > Len(RejectedRequests)
             /\ error'.code \in 400..499 )
           => /\ pc' = "done"
              /\ outcome'.kind = "thrown"
              /\ error'.message # Undefined
                    => outcome'.message = error'.message
              /\ results' = results /\ errors' = errors
              /\ Len(calls') = Len(calls)
              /\ inflight' = {} ]_vars

C1_Witness ==
    /\ op = "testEcosystem" /\ pc = "done" /\ FatalResponse
    /\ error.code = 499
    /\ outcome = Thrown("closed")
    /\ Len(results) = 1 /\ Len(errors) = 1
    /\ Len(RequestIndices) < PairCount

\* C2: every request that fails with anything but a 4xx code leaves exactly
\* one error entry, naming its path (and scan result, for monitor), and does
\* not end the run; results holds the responses of the resolved requests and
\* errors the entries of the soft failures, both in submission order, and
\* at return every (path, scanResult) pair has been submitted.
C2_SoftFailuresRecorded ==
    Orchestrating =>
        /\ Len(results) = Len(ResolvedRequests)
        /\ \A k \in 1..Len(results) :
              IF op = "testEcosystem"
              THEN results[k] = RemoteResponse(ResolvedRequests[k])
              ELSE /\ results[k].id = ResolvedRequests[k]
                   /\ results[k].path = calls[ResolvedRequests[k]].path
                   /\ results[k].scanResult =
                          calls[ResolvedRequests[k]].body.scanResult
        /\ Len(errors) = Len(SoftRequests)
        /\ \A k \in 1..Len(errors) :
              IF op = "testEcosystem"
              THEN errors[k][2] = calls[SoftRequests[k]].path
              ELSE /\ errors[k].path = calls[SoftRequests[k]].path
                   /\ errors[k].scanResult =
                          calls[SoftRequests[k]].body.scanResult
        /\ (pc = "done" /\ outcome.kind = "thrown" /\ calls # <<>>
                /\ IsRequest(Len(calls)))
              => error.code \in 400..499
        /\ DependenciesReturned => Len(RequestIndices) = PairCount

C2_Witness ==
    /\ op = "monitorEcosystem" /\ pc = "done" /\ outcome.kind = "returned"
    /\ Len(RequestIndices) = 3
    /\ calls[RequestIndices[1]].status = "rejected"
    /\ calls[RequestIndices[2]].status = "resolved"
    /\ calls[RequestIndices[3]].status = "rejected"
    /\ error.code = 0
    /\ Len(results) = 1 /\ Len(errors) = 2

\* C3: in every terminal state of a test or monitor run, returned or raised
\* on a fatal 4xx response, the last call made to the spinner is clearAll.
C3_SpinnerAlwaysCleared ==
    ( \/ DependenciesReturned
      \/ FatalResponse )
        => /\ spinnerLog # <<>>
           /\ Last(spinnerLog) = SpinnerClearAll

Range(f) == { f[x] : x \in DOMAIN f }

PairwiseDistinct(f) == \A a, b \in DOMAIN f : f[a] = f[b] => a = b

MonitorReturned ==
    op = "monitorEcosystem" /\ pc = "done" /\ outcome.kind = "returned"

\* Number of result and error entries carrying this path and scan result.
OutcomesFor(path, id) ==
    Cardinality({ k \in 1..Len(results) :
                    results[k].path = path /\ results[k].scanResult.id = id })
    + Cardinality({ k \in 1..Len(errors) :
                    errors[k].path = path /\ errors[k].scanResult.id = id })

\* The scan results handed back by all plugin.scan calls, one list per call.
ScanResponses == [k \in 1..Len(ScanIndices) |-> calls[ScanIndices[k]].response]

\* The last plugin.scan call made for a path.
LastScanOf(p) ==
    CHOOSE n \in Range(ScanIndices) :
        /\ calls[n].path = p
        /\ \A m \in Range(ScanIndices) : calls[m].path = p => m <= n

\* Number of scan results of the last scans of the paths in S.
RECURSIVE KeptCount(_)
KeptCount(S) ==
    IF S = {} THEN 0
    ELSE LET p == CHOOSE q \in S : TRUE
         IN  Len(calls[LastScanOf(p)].response) + KeptCount(S \ {p})

\* C4 as stated: when monitorEcosystem returns, every scan result the plugin
\* returned for any input path has exactly one entry, in results or errors,
\* and the entries number as many as the scan results of all input paths.
C4_OneOutcomePerScanResult ==
    MonitorReturned =>
        /\ \A n \in Range(ScanIndices) :
              \A k \in 1..Len(calls[n].response) :
                 OutcomesFor(calls[n].path, calls[n].response[k].id) = 1
        /\ Len(results) + Len(errors) = SumLen(ScanResponses)

\* C4 as amended: when monitorEcosystem returns, every scan result of the
\* last scan of each distinct input path has exactly one entry, in results
\* or errors, and the entries number as many as those scan results; with
\* pairwise distinct paths that is every scan result of every input path.
C4_OneOutcomePerKeptScanResult ==
    MonitorReturned =>
        /\ \A p \in Range(paths) :
              \A k \in 1..Len(calls[LastScanOf(p)].response) :
                 OutcomesFor(p, calls[LastScanOf(p)].response[k].id) = 1
        /\ Len(results) + Len(errors) =
              KeptCount(Range(paths))
        /\ PairwiseDistinct(paths) =>
              Len(results) + Len(errors) = SumLen(ScanResponses)

C4_Witness ==
    /\ MonitorReturned
    /\ Len(paths) = 2 /\ paths[1] = paths[2]
    /\ Len(calls[1].response) = 2
    /\ Len(results) = 1 /\ Len(errors) = 0

\* C5 as stated: the scan loop calls plugin.scan once per element of paths,
\* in input order, with options.path set to that path, and once the loop is
\* over scanResultsByPath has as many keys as paths has elements.
C5_ScanOncePerPath ==
    Orchestrating =>
        /\ Len(ScanIndices) <= Len(paths)
        /\ \A k \in 1..Len(ScanIndices) :
              /\ calls[ScanIndices[k]].path = paths[k]
              /\ calls[ScanIndices[k]].optionsPath = paths[k]
        /\ i > Len(paths) =>
              /\ Len(ScanIndices) = Len(paths)
              /\ Len(scanResultsByPath) = Len(paths)

\* C5 as amended: the scan loop calls plugin.scan once per element of paths,
\* in input order, with options.path set to that path, and once the loop is
\* over scanResultsByPath has one key per distinct path: as many keys as
\* paths has elements exactly when the paths are pairwise distinct.
C5_ScanOncePerPathDistinctKeys ==
    Orchestrating =>
        /\ Len(ScanIndices) <= Len(paths)
        /\ \A k \in 1..Len(ScanIndices) :
              /\ calls[ScanIndices[k]].path = paths[k]
              /\ calls[ScanIndices[k]].optionsPath = paths[k]
        /\ i > Len(paths) =>
              /\ Len(ScanIndices) = Len(paths)
              /\ { scanResultsByPath[n].key : n \in 1..Len(scanResultsByPath) }
                    = Range(paths)
              /\ Len(scanResultsByPath) = Cardinality(Range(paths))
              /\ (Len(scanResultsByPath) = Len(paths))
                    <=> PairwiseDistinct(paths)

C5_Witness ==
    /\ Orchestrating /\ i > Len(paths)
    /\ Len(paths) = 2 /\ paths[1] = paths[2]
    /\ Len(ScanIndices) = 2
    /\ Len(scanResultsByPath) = 1

\* The facts the plugin handed back for the scan result with this id.
OriginalFacts(id) == calls[id[1]].response[id[2]].facts

Occurrences(log, x) == Cardinality({ k \in 1..Len(log) : log[k] = x })

\* C6: every body put to the monitor endpoint has method 'cli', holds no
\* fact of type imageOsReleasePrettyName and holds every other fact of the
\* scan result the plugin returned, unchanged and in the original order; the
\* scan result was filtered exactly once.
C6_MonitorBodyFiltered ==
    \A n \in 1..Len(calls) :
        calls[n].kind = "monitor-dependencies" =>
            LET body == calls[n].body
                original == OriginalFacts(body.scanResult.id)
            IN  /\ body.method = "cli"
                /\ \A f \in 1..Len(body.scanResult.facts) :
                      body.scanResult.facts[f].type
                          # "imageOsReleasePrettyName"
                /\ body.scanResult.facts =
                      SelectSeq(original,
                          LAMBDA fact : fact.type # "imageOsReleasePrettyName")
                /\ Occurrences(filterLog, body.scanResult.id) = 1

C6_Witness ==
    \E n \in 1..Len(calls) :
        /\ calls[n].kind = "monitor-dependencies"
        /\ Len(OriginalFacts(calls[n].body.scanResult.id)) = 3
        /\ Len(calls[n].body.scanResult.facts) = 2

RECURSIVE IsSubsequence(_, _)
IsSubsequence(small, big) ==
    IF small = <<>> THEN TRUE
    ELSE IF big = <<>> THEN FALSE
    ELSE IF Head(small) = Head(big)
         THEN IsSubsequence(Tail(small), Tail(big))
         ELSE IsSubsequence(small, Tail(big))

\* What the report must show of an entry: a success entry's text, a failure
\* entry's path header.
Marker(entry) ==
    IF entry.ok
    THEN [style |-> "plain", text |-> entry.data.text]
    ELSE [style |-> "bold.white",
          text |-> <<"\nMonitoring ", entry.path, "...\n\n">>]

\* C7: the entries are the base results, then one success per monitor
\* result, then one failure per monitor error; the formatter returns the
\* joined report exactly when every entry is a success and otherwise raises
\* an error whose message is the joined report; the report shows every
\* success text and every failure's path header in the order of the entries.
C7_ReportReturnedOrRaised ==
    (op = "getFormattedMonitorOutput" /\ pc = "done") =>
        LET b == Len(baseResults)
            m == Len(monitorResults)
            report == IF outcome.kind = "returned"
                      THEN outcome.value ELSE outcome.message
        IN  /\ Len(results) = b + m + Len(errors)
            /\ SubSeq(results, 1, b) = baseResults
            /\ \A k \in 1..m :
                  /\ results[b + k].ok
                  /\ results[b + k].path = monitorResults[k].path
            /\ \A k \in 1..Len(errors) :
                  /\ ~results[b + m + k].ok
                  /\ results[b + m + k].path = errors[k].path
            /\ outcome.kind \in {"returned", "thrown"}
            /\ (outcome.kind = "returned")
                  <=> (\A n \in 1..Len(results) : results[n].ok)
            /\ IsSubsequence([n \in 1..Len(results) |-> Marker(results[n])],
                             report)
            /\ results # <<>> =>
                  Occurrences(report,
                      [style |-> "plain", text |-> <<"\n", SEPARATOR>>])
                    = Len(results) - 1

C7_Witness ==
    /\ op = "getFormattedMonitorOutput" /\ pc = "done"
    /\ Len(baseResults) = 1 /\ baseResults[1].ok
    /\ Len(monitorResults) = 1 /\ Len(errors) = 1
    /\ outcome.kind = "thrown"

\* C9: a rejected plugin.scan ends testEcosystem / monitorEcosystem with
\* that failure: it is the last call of the run, no request was sent to the
\* remote API and nothing is returned.
C9_ScanFailureIsFatal ==
    Orchestrating =>
        \A n \in 1..Len(calls) :
            (IsScan(n) /\ calls[n].status = "rejected") =>
                /\ pc = "done"
                /\ outcome = Thrown("scan failed")
                /\ n = Len(calls)
                /\ RequestIndices = <<>>

C9_Witness ==
    /\ Orchestrating /\ pc = "done"
    /\ Len(calls) = 2 /\ calls[2].status = "rejected" /\ IsScan(2)
    /\ Len(calls[1].response) = 2
    /\ Len(paths) = 2

\* Position of the first occurrence of a path in the input list.
PathPosition(p) ==
    CHOOSE k \in 1..Len(paths) :
        paths[k] = p /\ \A m \in 1..(k - 1) : paths[m] # p

\* The scan result a request carries.
SubmittedId(n) ==
    IF calls[n].kind = "test-dependencies"
    THEN calls[n].body.id
    ELSE calls[n].body.scanResult.id

\* C10: at most one call is outstanding and a call is issued only when all
\* earlier ones have settled; every scan call precedes every request; the
\* requests follow the order of the input path list and, within a path, the
\* order of its scan results.
C10_OneAtATimeInPathOrder ==
    Orchestrating =>
        /\ Cardinality(inflight) <= 1
        /\ \A n \in 1..(Len(calls) - 1) : calls[n].status # "pending"
        /\ \A a, b \in 1..Len(calls) :
              (IsScan(a) /\ IsRequest(b)) => a < b
        /\ \A a, b \in 1..Len(calls) :
              (IsRequest(a) /\ IsRequest(b) /\ a < b) =>
                 \/ PathPosition(calls[a].path) < PathPosition(calls[b].path)
                 \/ /\ calls[a].path = calls[b].path
                    /\ SubmittedId(a)[2] < SubmittedId(b)[2]
====
